---- MODULE Spec2Model ----
(***************************************************************************)
(* Model of the MoodTracker component                                      *)
(* (frontend/src/components/MoodTracker.js): the library/model loader,     *)
(* the capture session (getUserMedia), the 50 ms detection interval, the   *)
(* detection cycle with its AI and fallback paths, the landmark emotion    *)
(* scorer, the history buffer and the save handler; and of the two         *)
(* handlers of the mood log controller (addMoodLog, getMoodHistory).       *)
(*                                                                         *)
(* Numbers: emotion scores and jitter are in thousandths (0.4 = 400),      *)
(* lengths in tenths of a pixel, angles in whole degrees.  A normalised    *)
(* distribution is kept exactly, as the five numerators and the common     *)
(* divisor `den` (value of a label = num[label] / den).                    *)
(***************************************************************************)
EXTENDS Integers, Sequences, FiniteSets, TLC

\* ------------------------------------------------------------------ bounds
MaxCycles == 3          \* detection cycles started in one behaviour
MaxSaves == 2           \* clicks on the save button in one behaviour

\* --------------------------------------------------------------- constants
Scripts == 1..3         \* tf.min.js, face-landmarks-detection, handpose
Requests == 1..2        \* startVideo is called at most twice (lines 95, 118)
Cycles == 1..MaxCycles
Saves == 1..MaxSaves
HistoryLimit == 20      \* .limit(20) of getMoodHistory
KeepOnSave == 19        \* prev.slice(0, 19) of handleSaveMood

\* Object.keys order of the emotions object (insertion order, lines 480-486)
Labels == <<"neutral", "happy", "sad", "angry", "surprised">>
LabelSet == {Labels[i] : i \in 1..Len(Labels)}

VARIABLES
  mounted,        \* the component is mounted (false after teardown)
  error,          \* useState error: "none" | "webcam" | "ai"
  loaderPc,       \* position of the loadLibraries promise chain
  scriptTimer,    \* per loadScript call: its 10 s setTimeout
  faceLoad,       \* faceLandmarksDetection.load promise
  handLoad,       \* handpose.load promise
  gum,            \* getUserMedia calls: request/stream state
  srcObject,      \* stream attached to the <video> element (0 = none)
  metaPending,    \* onloadedmetadata installed and not yet fired
  isVideoReady,   \* useState isVideoReady
  frameOk,        \* video is playing with current frame data
  timerActive,    \* detectionIntervalRef holds a live interval
  intervals,      \* how many setInterval timers are set and not cleared
  detectionIntervalRef, \* the id in the ref: "undefined" | "live" | "cleared"
  showLandmarks,  \* useState showLandmarks
  faceModel,      \* useState faceModel is set
  handModel,      \* useState handModel is set
  modelsLoaded,   \* useState modelsLoaded
  isDetecting,    \* useState isDetecting (the in-flight flag)
  cycleState,     \* per detection cycle: how far it got
  lastTick,       \* what the most recent timer tick did
  lastDone,       \* the cycle that forwarded the most recent result
  mood,           \* useState mood
  emotionScores,  \* useState emotionScores
  faceDetails,    \* useState faceDetails (abstracted to its kind)
  handDetails,    \* useState handDetails (abstracted to its kind)
  faceIn,         \* what estimateFaces sees in front of the camera
  handsIn,        \* whether estimateHands sees a hand
  jitIn,          \* Math.random draws of the scorer's noise, per label
  timeIn,         \* new Date().getTime() of the fallback simulator
  randIn,         \* Math.random draws of the fallback simulator, per label
  meshIn,         \* the landmark array of the first face (scaledMesh || mesh)
  db,             \* server: the stored MoodLog documents, in insertion order
  clock,          \* the last value new Date() gave the save handler
  fetchPc,        \* the GET /api/moods/history request of the mount effect
  fetchBody,      \* the body of its 200 response
  history,        \* useState history
  notes,          \* useState notes
  saves,          \* per click on save: the POST /api/moods/log request
  lastAlert,      \* the most recent alert() shown
  stopCalls,      \* per stream: how often stop() was called on its tracks
  cleanups        \* how often the cleanup of the mount effect has run

loaderVars == <<loaderPc, scriptTimer, faceLoad, handLoad, faceModel,
                handModel, modelsLoaded>>
captureVars == <<gum, srcObject, metaPending, isVideoReady, frameOk>>
cycleVars == <<isDetecting, cycleState, lastTick, lastDone>>
resultVars == <<mood, emotionScores, faceDetails, handDetails>>
inputVars == <<faceIn, handsIn, jitIn, timeIn, randIn, meshIn>>
histVars == <<db, clock, fetchPc, fetchBody, history, notes, saves, lastAlert>>
teardownVars == <<stopCalls, cleanups>>
timerVars == <<timerActive, intervals, detectionIntervalRef>>
vars == <<mounted, error, timerVars, showLandmarks, loaderVars, captureVars, cycleVars,
          resultVars, inputVars, histVars, teardownVars>>

\* ================================================================ scorer
Min(a, b) == IF a < b THEN a ELSE b
Max(a, b) == IF a > b THEN a ELSE b

\* Object.values(emotions).reduce((sum, val) => sum + val, 0)
RECURSIVE SumFrom(_, _)
SumFrom(f, i) == IF i > Len(Labels) THEN 0 ELSE f[Labels[i]] + SumFrom(f, i + 1)
SumValues(f) == SumFrom(f, 1)

\* mouthWidth / (mouthHeight || 1), kept as a fraction n/d of tenths of a
\* pixel: the divisor is 1 px (10 tenths) only when mouthHeight is 0
mouthRatio(f) == [n |-> f.mw, d |-> IF f.mh = 0 THEN 10 ELSE f.mh]
\* mouthRatio > t/10 and mouthRatio < t/10
RatioGT(r, t) == 10 * r.n > t * r.d
RatioLT(r, t) == 10 * r.n < t * r.d

isMouthOpen(f) == 10 * f.mh > 3 * f.mw
eyebrowRaised(f) == f.lbh > 250 \/ f.rbh > 250
eyebrowLowered(f) == f.lbh < 150 \/ f.rbh < 150
eyebrowsAngledInward(f) == f.la < -15 /\ f.ra > 15
eyesWideOpen(f) == f.leo > 150 \/ f.reo > 150

calculateSadnessScore(isMouthTurnedDown, mouthCornerDiff, ratio) ==
  Min(700, (IF isMouthTurnedDown THEN 400 ELSE 0)
           + (IF mouthCornerDiff > 40 THEN 200
              ELSE IF mouthCornerDiff > 25 THEN 100 ELSE 0)
           + (IF RatioLT(ratio, 15) THEN 150 ELSE 0))

\* calculateAngerScore without the else-if branch of lines 418-420
calculateAngerScore_NoPartial(lowered, inward, leftAngle, rightAngle) ==
  Min(600, (IF lowered THEN 300 ELSE 0) + (IF inward THEN 250 ELSE 0))

calculateAngerScore(lowered, inward, leftAngle, rightAngle) ==
  Min(600, (IF lowered THEN 300 ELSE 0)
           + (IF inward THEN 250
              ELSE IF leftAngle < -15 \/ rightAngle > 15 THEN 150 ELSE 0))

\* calculateSurpriseScore capped at 0.6 like the anger score
calculateSurpriseScore_Cap06(raised, wide, open) ==
  Min(600, (IF raised THEN 400 ELSE 0) + (IF wide THEN 300 ELSE 0)
           + (IF open THEN 300 ELSE 0))

calculateSurpriseScore(raised, wide, open) ==
  Min(900, (IF raised THEN 400 ELSE 0) + (IF wide THEN 300 ELSE 0)
           + (IF open THEN 300 ELSE 0))

\* calculateHappinessScore with the former top threshold 3.5 (line 456)
calculateHappinessScore_OldThreshold(ratio, isMouthTurnedDown) ==
  LET tier == IF RatioGT(ratio, 35) THEN 800
              ELSE IF RatioGT(ratio, 25) THEN 600
              ELSE IF RatioGT(ratio, 20) THEN 400
              ELSE IF RatioGT(ratio, 15) THEN 200 ELSE 0
      score == IF isMouthTurnedDown THEN Max(0, tier - 200) ELSE tier
  IN Min(950, score)

calculateHappinessScore(ratio, isMouthTurnedDown) ==
  LET tier == IF RatioGT(ratio, 30) THEN 800
              ELSE IF RatioGT(ratio, 25) THEN 600
              ELSE IF RatioGT(ratio, 20) THEN 400
              ELSE IF RatioGT(ratio, 15) THEN 200 ELSE 0
      score == IF isMouthTurnedDown THEN Max(0, tier - 200) ELSE tier
  IN Min(950, score)

\* the default emotions object (lines 480-486); it is returned unnormalised
DefaultEmotions ==
  [num |-> [k \in LabelSet |->
              CASE k = "neutral" -> 170 [] k = "happy" -> 500
                [] k = "sad" -> 100 [] k = "angry" -> 80
                [] OTHER -> 150],
   den |-> 1000]

\* lines 617-624: the five scores before the noise is added
RawScores(f) ==
  LET ratio == mouthRatio(f)
      sadness == calculateSadnessScore(f.down, f.cd, ratio)
      anger == calculateAngerScore(eyebrowLowered(f), eyebrowsAngledInward(f),
                                   f.la, f.ra)
      surprise == calculateSurpriseScore(eyebrowRaised(f), eyesWideOpen(f),
                                         isMouthOpen(f))
      happiness == calculateHappinessScore(ratio, f.down)
      neutralScore == 400 - (sadness + anger + surprise + happiness) \div 2
  IN [k \in LabelSet |->
        CASE k = "sad" -> Max(100, sadness)
          [] k = "angry" -> Max(100, anger)
          [] k = "surprised" -> Max(100, surprise)
          [] k = "happy" -> Min(700, happiness)
          [] OTHER -> Max(50, neutralScore)]

\* AddNoise without the Math.max(0, ...) of line 631
AddNoise_NoClamp(v, j) == v + j

\* lines 627-632: emotions[key] + (Math.random() * 0.05 - 0.025), kept >= 0
AddNoise(v, j) == Max(0, v + j)

\* lines 635-638: every value divided by the sum of the five values
Normalize(vals) == [num |-> vals, den |-> SumValues(vals)]

\* calculateEmotionsFromLandmarks without the guard of lines 488-490
calculateEmotionsFromLandmarks_NoGuard(f, jit) ==
  IF f.err THEN DefaultEmotions
  ELSE Normalize([k \in LabelSet |-> AddNoise(RawScores(f)[k], jit[k])])

\* lines 475-645 on the measurements f of the landmark array: the guard of
\* lines 488-490, the catch of lines 641-644 (f.err: reading the key points
\* threw), else scores, noise and normalisation
calculateEmotionsFromLandmarks(f, jit) ==
  IF f.points < 20 THEN DefaultEmotions
  ELSE IF f.err THEN DefaultEmotions
  ELSE Normalize([k \in LabelSet |-> AddNoise(RawScores(f)[k], jit[k])])

\* ================================================== fallback simulator
\* getRandomEmotions with <= in place of < at the two profile boundaries
getRandomEmotions_Inclusive(t, r) ==
  LET pos == t % 30000
      e == IF pos <= 9000 THEN
             [k \in LabelSet |->
                CASE k = "neutral" -> 300 + r[k] * 20
                  [] k = "happy" -> 400 + r[k] * 30
                  [] k = "sad" -> r[k] * 20
                  [] OTHER -> r[k] * 10]
           ELSE IF pos <= 18000 THEN
             [k \in LabelSet |->
                CASE k = "neutral" -> 600 + r[k] * 20
                  [] k = "happy" -> 100 + r[k] * 20
                  [] k = "sad" -> 100 + r[k] * 10
                  [] OTHER -> r[k] * 10]
           ELSE
             [k \in LabelSet |->
                CASE k = "neutral" -> 300 + r[k] * 30
                  [] k = "happy" -> 100 + r[k] * 30
                  [] k = "sad" -> 100 + r[k] * 30
                  [] OTHER -> 50 + r[k] * 15]
  IN Normalize(e)

\* getRandomEmotions whose first profile lacks the 0.4 base of happy
getRandomEmotions_NoHappyBase(t, r) ==
  LET pos == t % 30000
      e == IF pos < 9000 THEN
             [k \in LabelSet |->
                CASE k = "neutral" -> 300 + r[k] * 20
                  [] k = "happy" -> r[k] * 30
                  [] k = "sad" -> r[k] * 20
                  [] OTHER -> r[k] * 10]
           ELSE IF pos < 18000 THEN
             [k \in LabelSet |->
                CASE k = "neutral" -> 600 + r[k] * 20
                  [] k = "happy" -> 100 + r[k] * 20
                  [] k = "sad" -> 100 + r[k] * 10
                  [] OTHER -> r[k] * 10]
           ELSE
             [k \in LabelSet |->
                CASE k = "neutral" -> 300 + r[k] * 30
                  [] k = "happy" -> 100 + r[k] * 30
                  [] k = "sad" -> 100 + r[k] * 30
                  [] OTHER -> 50 + r[k] * 15]
  IN Normalize(e)

\* lines 126-165; r[k] is the Math.random draw for label k in tenths
getRandomEmotions(t, r) ==
  LET pos == t % 30000      \* cyclePosition * 30000
      e == IF pos < 9000 THEN
             [k \in LabelSet |->
                CASE k = "neutral" -> 300 + r[k] * 20
                  [] k = "happy" -> 400 + r[k] * 30
                  [] k = "sad" -> r[k] * 20
                  [] OTHER -> r[k] * 10]
           ELSE IF pos < 18000 THEN
             [k \in LabelSet |->
                CASE k = "neutral" -> 600 + r[k] * 20
                  [] k = "happy" -> 100 + r[k] * 20
                  [] k = "sad" -> 100 + r[k] * 10
                  [] OTHER -> r[k] * 10]
           ELSE
             [k \in LabelSet |->
                CASE k = "neutral" -> 300 + r[k] * 30
                  [] k = "happy" -> 100 + r[k] * 30
                  [] k = "sad" -> 100 + r[k] * 30
                  [] OTHER -> 50 + r[k] * 15]
  IN Normalize(e)

\* ======================================================= dominant mood
\* the comparison of the reduce written with >= instead of >
Greater_OrEqual(e, a, b) == e.den # 0 /\ e.num[a] >= e.num[b]

\* emotions[a] > emotions[b] on the normalised values; a zero divisor makes
\* every value NaN and every comparison false
Greater(e, a, b) == e.den # 0 /\ e.num[a] > e.num[b]

\* Object.keys(emotions).reduce((a, b) => emotions[a] > emotions[b] ? a : b)
RECURSIVE ReduceKeys(_, _, _)
ReduceKeys(e, a, i) ==
  IF i > Len(Labels) THEN a
  ELSE ReduceKeys(e, IF Greater(e, a, Labels[i]) THEN a ELSE Labels[i], i + 1)
dominantEmotion(e) == ReduceKeys(e, Labels[1], 2)

\* ============================================================== inputs
\* a face as the landmark measurements of lines 523-579 see it:
\* faces = faces.length, points = landmarks.length, mw/mh = mouth width and
\* height, cd = mouth corner difference, down = mouth turned down,
\* lbh/rbh = eyebrow heights, la/ra = eyebrow angles, leo/reo = eye openness
\* err = reading a coordinate of a key point threw (never for a face given
\* by its measurements)
Face(n, p, mw, mh, cd, down, bh, la, ra, eo) ==
  [faces |-> n, points |-> p, mw |-> mw, mh |-> mh, cd |-> cd, down |-> down,
   lbh |-> bh, rbh |-> bh, la |-> la, ra |-> ra, leo |-> eo, reo |-> eo,
   err |-> FALSE]

NoFace == Face(0, 0, 0, 0, 0, FALSE, 200, 0, 0, 100)
SmilingFace == Face(1, 468, 640, 200, 0, FALSE, 200, 0, 0, 100)
ZeroJitter == [k \in LabelSet |-> 0]
HalfDraws == [k \in LabelSet |-> 5]

SessionFaces == {NoFace, SmilingFace}

\* ------------------------------------------------------ landmark arrays
\* the indices of the landmark array that lines 495-513 read and whose
\* points are used afterwards
UsedIdx == 0..19 \cup {61, 65, 105, 145, 159, 291, 295, 334, 374, 386}

\* a landmark array: kind "mesh" with len = landmarks.length and pt[i] the
\* point <<x, y>> at index i < len; kind "absent" when the face carries no
\* landmark array; kind "measured" when the face is given by its
\* measurements (faceIn) and its coordinates are left open
Mesh(kind, len, pt) == [kind |-> kind, len |-> len, pt |-> pt]
NoPoints == [i \in UsedIdx |-> <<0, 0>>]
NoLandmarks == Mesh("absent", 0, NoPoints)
MeasuredOnly == Mesh("measured", 0, NoPoints)

\* landmarks[i]: undefined (the empty tuple) outside the array
Undefined == <<>>
At(l, i) == IF l.kind = "mesh" /\ i < l.len THEN l.pt[i] ELSE Undefined

\* P without the || fallback
P_NoFallback(l, pref, fb) == At(l, pref)

\* landmarks[pref] || landmarks[fb]
P(l, pref, fb) == IF At(l, pref) # Undefined THEN At(l, pref) ELSE At(l, fb)

\* the key points of lines 495-513 whose coordinates are read, each with
\* its preferred index and its fallback index
KeyIdx ==
  [mouthLeft |-> <<61, 0>>, mouthRight |-> <<291, 1>>, upperLip |-> <<13, 2>>,
   lowerLip |-> <<14, 3>>, mouthCenter |-> <<0, 4>>, leftEye |-> <<159, 5>>,
   rightEye |-> <<386, 6>>, leftEyeTop |-> <<159, 7>>,
   leftEyeBottom |-> <<145, 8>>, rightEyeTop |-> <<386, 9>>,
   rightEyeBottom |-> <<374, 10>>, leftEyebrowOuter |-> <<65, 11>>,
   leftEyebrowInner |-> <<105, 12>>, rightEyebrowOuter |-> <<295, 13>>,
   rightEyebrowInner |-> <<334, 14>>]
KeyNames == DOMAIN KeyIdx
KeyPoint(l, k) == P(l, KeyIdx[k][1], KeyIdx[k][2])

Abs(x) == IF x < 0 THEN -x ELSE x

\* Math.sqrt(dx^2 + dy^2), exact: defined for the distances that are whole
\* numbers of tenths of a pixel
Dist(p, q) ==
  LET dx == Abs(p[1] - q[1])
      dy == Abs(p[2] - q[2])
  IN IF dy = 0 THEN dx
     ELSE IF dx = 0 THEN dy
     ELSE CHOOSE r \in 1..(dx + dy) : r * r = dx * dx + dy * dy

\* Math.atan2(dy, dx) * (180 / Math.PI), exact: defined for the directions
\* that are multiples of 45 degrees
Atan2Deg(dy, dx) ==
  CASE dy = 0 /\ dx >= 0 -> 0
    [] dy = 0 /\ dx < 0 -> 180
    [] dx = 0 /\ dy > 0 -> 90
    [] dx = 0 /\ dy < 0 -> -90
    [] dx = dy /\ dx > 0 -> 45
    [] dx = dy /\ dx < 0 -> -135
    [] dx = -dy /\ dx > 0 -> -45
    [] dx = -dy /\ dx < 0 -> 135

\* lines 495-579: the measurements of a landmark array; reading a
\* coordinate of an undefined key point throws
Measure(l) ==
  LET kp == [k \in KeyNames |-> KeyPoint(l, k)]
  IN IF \E k \in KeyNames : kp[k] = Undefined
       THEN [Face(1, l.len, 0, 0, 0, FALSE, 0, 0, 0, 0) EXCEPT !.err = TRUE]
       ELSE [faces |-> 1,
             points |-> l.len,
             mw |-> Dist(kp.mouthRight, kp.mouthLeft),
             mh |-> Dist(kp.upperLip, kp.lowerLip),
             cd |-> Abs(kp.mouthLeft[2] - kp.mouthRight[2]),
             down |-> /\ kp.mouthLeft[2] > kp.mouthCenter[2]
                      /\ kp.mouthRight[2] > kp.mouthCenter[2],
             lbh |-> Abs(kp.leftEyebrowOuter[2] - kp.leftEye[2]),
             rbh |-> Abs(kp.rightEyebrowOuter[2] - kp.rightEye[2]),
             la |-> Atan2Deg(kp.leftEyebrowOuter[2] - kp.leftEyebrowInner[2],
                             kp.leftEyebrowOuter[1] - kp.leftEyebrowInner[1]),
             ra |-> Atan2Deg(kp.rightEyebrowInner[2] - kp.rightEyebrowOuter[2],
                             kp.rightEyebrowInner[1] - kp.rightEyebrowOuter[1]),
             leo |-> Abs(kp.leftEyeTop[2] - kp.leftEyeBottom[2]),
             reo |-> Abs(kp.rightEyeTop[2] - kp.rightEyeBottom[2]),
             err |-> FALSE]

\* ========================================================= the session
\* a state setter that takes effect after the unmount too
Upd_Always(new, old) == new

\* a state setter of an unmounted component has no effect
Upd(new, old) == IF mounted THEN new ELSE old

\* videoRef.current: the <video> element is rendered only while the
\* component is mounted and the error view (lines 771-784) is not shown
VideoRefCurrent == mounted /\ error = "none"

ScriptPc(i) == CASE i = 1 -> "tfjs" [] i = 2 -> "facelib" [] OTHER -> "handlib"

\* the request the next call of startVideo makes
NextReq(g) == IF g[1] = "idle" THEN 1 ELSE 2

EmptyScores == [num |-> [k \in LabelSet |-> 0], den |-> 0]

NoRecord == [id |-> 0, ts |-> 0]

\* the history, notes and save state of a freshly mounted component, whose
\* mount effect (lines 687-707) has sent the history request
ClientInit ==
  /\ fetchPc = "sent"
  /\ fetchBody = <<>>
  /\ history = <<>>
  /\ notes = ""
  /\ saves = [i \in Saves |-> [pc |-> "unused", ts |-> 0, rec |-> NoRecord]]
  /\ lastAlert = "none"
  /\ stopCalls = [r \in Requests |-> 0]
  /\ cleanups = 0

\* the server's collection holding n documents with increasing timestamps
Stored(n) == [i \in 1..n |-> [id |-> i, ts |-> i]]

SessionInit ==
  /\ mounted = TRUE
  /\ error = "none"
  /\ loaderPc = "tfjs"
  /\ scriptTimer = [i \in Scripts |-> IF i = 1 THEN "armed" ELSE "unset"]
  /\ faceLoad = "idle"
  /\ handLoad = "idle"
  /\ gum = [r \in Requests |-> "idle"]
  /\ srcObject = 0
  /\ metaPending = FALSE
  /\ isVideoReady = FALSE
  /\ frameOk = FALSE
  /\ timerActive = FALSE
  /\ intervals = 0
  /\ detectionIntervalRef = "undefined"
  /\ showLandmarks = FALSE
  /\ faceModel = FALSE
  /\ handModel = FALSE
  /\ modelsLoaded = FALSE
  /\ isDetecting = FALSE
  /\ cycleState = [c \in Cycles |-> "unused"]
  /\ lastTick = "none"
  /\ lastDone = 0
  /\ mood = ""
  /\ emotionScores = EmptyScores
  /\ faceDetails = "null"
  /\ handDetails = "null"
  /\ ClientInit

Init ==
  /\ SessionInit
  /\ db = Stored(0)
  /\ clock = 0
  /\ faceIn \in SessionFaces
  /\ handsIn \in BOOLEAN
  /\ jitIn = ZeroJitter
  /\ timeIn = 1000
  /\ randIn = HalfDraws
  /\ meshIn = MeasuredOnly

\* the .catch of loadLibraries (lines 115-121): startVideo() is called, then
\* the error and modelsLoaded are set; g is gum as the caller leaves it
CatchLoadError(g) ==
  /\ gum' = [g EXCEPT ![NextReq(g)] = "pending"]
  /\ error' = Upd("ai", error)
  /\ modelsLoaded' = Upd(TRUE, modelsLoaded)
  /\ loaderPc' = "failed"

\* script.onload of loadScript i: the chain goes on to the next script, and
\* after the third to startVideo() (line 95)
ScriptOnload(i) ==
  /\ loaderPc = ScriptPc(i)
  /\ IF i < 3
       THEN /\ loaderPc' = ScriptPc(i + 1)
            /\ scriptTimer' = [scriptTimer EXCEPT ![i + 1] = "armed"]
            /\ gum' = gum
       ELSE /\ loaderPc' = "video"
            /\ scriptTimer' = scriptTimer
            /\ gum' = [gum EXCEPT ![NextReq(gum)] = "pending"]
  /\ UNCHANGED <<mounted, error, timerVars, faceLoad, handLoad, faceModel,
                 handModel, modelsLoaded, srcObject, metaPending,
                 isVideoReady, frameOk, cycleVars, resultVars, inputVars, showLandmarks, histVars, teardownVars>>

\* script.onerror of loadScript i: the promise rejects, the .catch runs
ScriptOnerror(i) ==
  /\ loaderPc = ScriptPc(i)
  /\ CatchLoadError(gum)
  /\ UNCHANGED <<mounted, timerVars, scriptTimer, faceLoad, handLoad,
                 faceModel, handModel, srcObject, metaPending, isVideoReady,
                 frameOk, cycleVars, resultVars, inputVars, showLandmarks, histVars, teardownVars>>

\* the setTimeout callback of loadScript i (lines 74-78): script.onload was
\* assigned a function on line 69, so !script.onload is false and the
\* callback rejects nothing
ScriptTimeout(i) ==
  /\ scriptTimer[i] = "armed"
  /\ scriptTimer' = [scriptTimer EXCEPT ![i] = "fired"]
  /\ UNCHANGED <<mounted, error, timerVars, loaderPc, faceLoad, handLoad,
                 faceModel, handModel, modelsLoaded, captureVars, cycleVars,
                 resultVars, inputVars, showLandmarks, histVars, teardownVars>>

\* getUserMedia of request r settles and startVideo (lines 35-57) resumes;
\* when it was the call of line 95 the chain goes on to load the two models
StartVideoSettle(r, granted) ==
  /\ gum[r] = "pending"
  /\ IF granted
       THEN /\ error' = error
            /\ IF VideoRefCurrent
                 THEN /\ srcObject' = r
                      /\ metaPending' = TRUE
                 ELSE UNCHANGED <<srcObject, metaPending>>
       ELSE /\ error' = Upd("webcam", error)
            /\ UNCHANGED <<srcObject, metaPending>>
  /\ gum' = [gum EXCEPT ![r] = IF granted THEN "live" ELSE "denied"]
  /\ IF loaderPc = "video"
       THEN /\ loaderPc' = "models"
            /\ faceLoad' = "pending"
            /\ handLoad' = "pending"
       ELSE UNCHANGED <<loaderPc, faceLoad, handLoad>>
  /\ UNCHANGED <<mounted, timerVars, scriptTimer, faceModel, handModel,
                 modelsLoaded, isVideoReady, frameOk, cycleVars, resultVars,
                 inputVars, showLandmarks, histVars, teardownVars>>

\* the useEffect of lines 674-684 after a render in which isVideoReady or
\* runDetection changed: the old interval is cleared, a new one is set when
\* the video is ready
IntervalEffect(ready) == IF mounted THEN ready ELSE timerActive

\* clearInterval(detectionIntervalRef.current) when the ref holds an id
\* (lines 659-661 and 679-681): the timer count and the id afterwards
ClearedCount ==
  IF detectionIntervalRef = "live" THEN intervals - 1 ELSE intervals
ClearedRef ==
  IF detectionIntervalRef = "live" THEN "cleared" ELSE detectionIntervalRef

\* RunIntervalEffect without the cleanup of the previous run
RunIntervalEffect_NoCleanup(ready) ==
  /\ timerActive' = IntervalEffect(ready)
  /\ IF mounted /\ ready
       THEN /\ intervals' = intervals + 1
            /\ detectionIntervalRef' = "live"
       ELSE UNCHANGED <<intervals, detectionIntervalRef>>

\* one run of the useEffect of lines 674-684: the cleanup returned by the
\* previous run (lines 678-682), then setInterval when the video is ready
\* (line 677)
RunIntervalEffect(ready) ==
  /\ timerActive' = IntervalEffect(ready)
  /\ IF ~mounted
       THEN UNCHANGED <<intervals, detectionIntervalRef>>
       ELSE IF ready
         THEN /\ intervals' = ClearedCount + 1
              /\ detectionIntervalRef' = "live"
         ELSE /\ intervals' = ClearedCount
              /\ detectionIntervalRef' = ClearedRef

\* ModelLoadSettle with each handle set by its own promise, also after the
\* chain has already failed
ModelLoadSettle_PerPromise(m, ok) ==
  /\ IF m = "face" THEN faceLoad = "pending" ELSE handLoad = "pending"
  /\ faceLoad' = IF m = "face" THEN (IF ok THEN "ok" ELSE "err") ELSE faceLoad
  /\ handLoad' = IF m = "hand" THEN (IF ok THEN "ok" ELSE "err") ELSE handLoad
  /\ IF loaderPc # "models"
       THEN /\ faceModel' = Upd(faceModel \/ (ok /\ m = "face"), faceModel)
            /\ handModel' = Upd(handModel \/ (ok /\ m = "hand"), handModel)
            /\ UNCHANGED <<loaderPc, gum, error, modelsLoaded, timerVars>>
       ELSE IF ~ok
         THEN /\ CatchLoadError(gum)
              /\ UNCHANGED <<faceModel, handModel, timerVars>>
         ELSE IF faceLoad' = "ok" /\ handLoad' = "ok"
           THEN /\ faceModel' = Upd(TRUE, faceModel)
                /\ handModel' = Upd(TRUE, handModel)
                /\ modelsLoaded' = Upd(TRUE, modelsLoaded)
                /\ loaderPc' = "loaded"
                /\ RunIntervalEffect(isVideoReady)
                /\ UNCHANGED <<gum, error>>
           ELSE UNCHANGED <<loaderPc, gum, error, modelsLoaded, faceModel,
                            handModel, timerVars>>
  /\ UNCHANGED <<mounted, scriptTimer, srcObject, metaPending, isVideoReady,
                 frameOk, cycleVars, resultVars, inputVars, showLandmarks, histVars, teardownVars>>

\* one of the two model load promises settles; Promise.all (lines 97-106)
\* resolves when both have, and rejects with the first rejection
ModelLoadSettle(m, ok) ==
  /\ IF m = "face" THEN faceLoad = "pending" ELSE handLoad = "pending"
  /\ faceLoad' = IF m = "face" THEN (IF ok THEN "ok" ELSE "err") ELSE faceLoad
  /\ handLoad' = IF m = "hand" THEN (IF ok THEN "ok" ELSE "err") ELSE handLoad
  /\ IF loaderPc # "models"
       THEN UNCHANGED <<loaderPc, gum, error, modelsLoaded, faceModel,
                        handModel, timerVars>>
       ELSE IF ~ok
         THEN /\ CatchLoadError(gum)
              /\ UNCHANGED <<faceModel, handModel, timerVars>>
         ELSE IF faceLoad' = "ok" /\ handLoad' = "ok"
           THEN /\ faceModel' = Upd(TRUE, faceModel)
                /\ handModel' = Upd(TRUE, handModel)
                /\ modelsLoaded' = Upd(TRUE, modelsLoaded)
                /\ loaderPc' = "loaded"
                /\ RunIntervalEffect(isVideoReady)
                /\ UNCHANGED <<gum, error>>
           ELSE UNCHANGED <<loaderPc, gum, error, modelsLoaded, faceModel,
                            handModel, timerVars>>
  /\ UNCHANGED <<mounted, scriptTimer, srcObject, metaPending, isVideoReady,
                 frameOk, cycleVars, resultVars, inputVars, showLandmarks, histVars, teardownVars>>

\* videoRef.current.onloadedmetadata (lines 47-51)
OnLoadedMetadata ==
  /\ srcObject # 0
  /\ metaPending
  /\ metaPending' = FALSE
  /\ isVideoReady' = Upd(TRUE, isVideoReady)
  /\ RunIntervalEffect(isVideoReady')
  /\ UNCHANGED <<mounted, error, loaderVars, gum, srcObject, frameOk,
                 cycleVars, resultVars, inputVars, showLandmarks, histVars, teardownVars>>

\* the video starts or stops having a current frame (paused, ended,
\* readyState < 2)
FrameChange ==
  /\ srcObject # 0
  /\ gum[srcObject] = "live"
  /\ ~metaPending
  /\ frameOk' = ~frameOk
  /\ UNCHANGED <<mounted, error, timerVars, loaderVars, gum, srcObject,
                 metaPending, isVideoReady, cycleVars, resultVars, inputVars, showLandmarks, histVars, teardownVars>>

\* onChange of the landmarks switch (line 843): showLandmarks changes, so
\* runDetection is a new function (line 386) and the interval effect runs
\* again; the switch is part of the main view, not of the error view
ToggleLandmarks ==
  /\ mounted
  /\ error = "none"
  /\ showLandmarks' = ~showLandmarks
  /\ RunIntervalEffect(isVideoReady)
  /\ UNCHANGED <<mounted, error, loaderVars, captureVars, cycleVars,
                 resultVars, inputVars, histVars, teardownVars>>

\* ===================================================== detection cycle
InFlight == {c \in Cycles : cycleState[c] = "inflight"}
Unused == {c \in Cycles : cycleState[c] = "unused"}
NextCycle == CHOOSE c \in Unused : \A d \in Unused : c <= d

\* DetectionReady without the paused / ended / readyState tests
DetectionReady_IgnoresFrame == VideoRefCurrent /\ isVideoReady

\* lines 169-173: the conditions under which runDetection goes on
DetectionReady == VideoRefCurrent /\ isVideoReady /\ frameOk

\* useAIMode chosen without looking at the model handles
useAIMode_Always == TRUE

\* line 234
useAIMode == faceModel /\ handModel

\* handleFallbackDetection that only logs and clears the in-flight flag
handleFallbackDetection_LogOnly ==
  /\ isDetecting' = Upd(FALSE, isDetecting)
  /\ UNCHANGED <<emotionScores, mood, faceDetails, handDetails>>

\* handleFallbackDetection without the setIsDetecting(false) of line 230
handleFallbackDetection_KeepsFlag ==
  LET basicEmotions == getRandomEmotions(timeIn, randIn)
  IN /\ emotionScores' = Upd(basicEmotions, emotionScores)
     /\ mood' = Upd(dominantEmotion(basicEmotions), mood)
     /\ faceDetails' = Upd("fallback", faceDetails)
     /\ handDetails' = Upd("fallback", handDetails)
     /\ isDetecting' = isDetecting

\* handleFallbackDetection (lines 191-231)
handleFallbackDetection ==
  LET basicEmotions == getRandomEmotions(timeIn, randIn)
  IN /\ emotionScores' = Upd(basicEmotions, emotionScores)
     /\ mood' = Upd(dominantEmotion(basicEmotions), mood)
     /\ faceDetails' = Upd("fallback", faceDetails)
     /\ handDetails' = Upd("fallback", handDetails)
     /\ isDetecting' = Upd(FALSE, isDetecting)

\* the setInterval callback runDetection (lines 168-386) up to the point
\* where it returns; syncThrow: estimateFaces or estimateHands throws
\* instead of returning a promise (the catch of lines 382-385)
Tick(syncThrow) ==
  /\ timerActive
  /\ IF ~DetectionReady
       THEN /\ ~syncThrow
            /\ lastTick' = "skipped"
            /\ UNCHANGED <<isDetecting, cycleState, lastDone, resultVars>>
       ELSE /\ Unused # {}
            /\ IF useAIMode
                 THEN /\ lastTick' = "ai"
                      /\ IF syncThrow
                           THEN /\ handleFallbackDetection
                                /\ cycleState' =
                                     [cycleState EXCEPT ![NextCycle] = "recovered"]
                                /\ lastDone' = NextCycle
                           ELSE /\ isDetecting' = Upd(TRUE, isDetecting)
                                /\ cycleState' =
                                     [cycleState EXCEPT ![NextCycle] = "inflight"]
                                /\ UNCHANGED <<lastDone, resultVars>>
                 ELSE /\ ~syncThrow
                      /\ lastTick' = "fallback"
                      /\ handleFallbackDetection
                      /\ cycleState' =
                           [cycleState EXCEPT ![NextCycle] = "fallback"]
                      /\ lastDone' = NextCycle
  /\ UNCHANGED <<mounted, error, timerVars, loaderVars, captureVars,
                 inputVars, showLandmarks, histVars, teardownVars>>

\* CycleSettle whose empty face list resets the mood and the distribution
CycleSettle_EmptyResets(c, outcome) ==
  /\ cycleState[c] = "inflight"
  /\ IF outcome = "resolve"
       THEN /\ IF faceIn.faces > 0
                 THEN LET emotions == calculateEmotionsFromLandmarks(faceIn, jitIn)
                      IN /\ emotionScores' = Upd(emotions, emotionScores)
                         /\ mood' = Upd(dominantEmotion(emotions), mood)
                         /\ faceDetails' = Upd("face", faceDetails)
                 ELSE /\ faceDetails' = Upd("noface", faceDetails)
                      /\ emotionScores' = Upd(EmptyScores, emotionScores)
                      /\ mood' = Upd("", mood)
            /\ handDetails' = Upd(IF handsIn THEN "hands" ELSE "nohands",
                                  handDetails)
            /\ isDetecting' = Upd(FALSE, isDetecting)
            /\ cycleState' = [cycleState EXCEPT ![c] = "ai"]
       ELSE /\ handleFallbackDetection
            /\ cycleState' = [cycleState EXCEPT ![c] = "recovered"]
  /\ lastDone' = c
  /\ UNCHANGED <<mounted, error, timerVars, loaderVars, captureVars,
                 lastTick, inputVars, showLandmarks, histVars, teardownVars>>

\* the Promise.all of cycle c settles: "resolve" runs the .then of lines
\* 253-373, "reject" (an inference rejected) and "throw" (the .then threw)
\* run the .catch of lines 374-377
CycleSettle(c, outcome) ==
  /\ cycleState[c] = "inflight"
  /\ IF outcome = "resolve"
       THEN /\ IF faceIn.faces > 0
                 THEN LET emotions == calculateEmotionsFromLandmarks(faceIn, jitIn)
                      IN /\ emotionScores' = Upd(emotions, emotionScores)
                         /\ mood' = Upd(dominantEmotion(emotions), mood)
                         /\ faceDetails' = Upd("face", faceDetails)
                 ELSE /\ faceDetails' = Upd("noface", faceDetails)
                      /\ UNCHANGED <<emotionScores, mood>>
            /\ handDetails' = Upd(IF handsIn THEN "hands" ELSE "nohands",
                                  handDetails)
            /\ isDetecting' = Upd(FALSE, isDetecting)
            /\ cycleState' = [cycleState EXCEPT ![c] = "ai"]
       ELSE /\ handleFallbackDetection
            /\ cycleState' = [cycleState EXCEPT ![c] = "recovered"]
  /\ lastDone' = c
  /\ UNCHANGED <<mounted, error, timerVars, loaderVars, captureVars,
                 lastTick, inputVars, showLandmarks, histVars, teardownVars>>

\* the cleanup functions (lines 658-670 and 678-682): clearInterval, and
\* track.stop() on every track of the stream attached to the video element
\* that the mount effect captured; srcObject is left as it is
Cleanup ==
  /\ timerActive' = FALSE
  /\ intervals' = ClearedCount
  /\ detectionIntervalRef' = ClearedRef
  /\ gum' = IF srcObject # 0 THEN [gum EXCEPT ![srcObject] = "stopped"] ELSE gum
  /\ stopCalls' = IF srcObject # 0
                    THEN [stopCalls EXCEPT ![srcObject] = @ + 1]
                    ELSE stopCalls
  /\ frameOk' = FALSE
  /\ cleanups' = cleanups + 1

\* the cleanups of the two effects when the component unmounts (lines
\* 658-670 and 678-682): the interval is cleared and the tracks of the
\* stream attached to the video element are stopped
Unmount ==
  /\ mounted
  /\ mounted' = FALSE
  /\ Cleanup
  /\ UNCHANGED <<error, loaderVars, srcObject, metaPending, isVideoReady,
                 cycleVars, resultVars, inputVars, showLandmarks, histVars>>

\* the cleanup function of the mount effect called once more
CleanupAgain ==
  /\ ~mounted
  /\ cleanups = 1
  /\ Cleanup
  /\ UNCHANGED <<mounted, error, loaderVars, srcObject, metaPending,
                 isVideoReady, cycleVars, resultVars, inputVars, showLandmarks, histVars>>

Next ==
  \/ \E i \in Scripts : ScriptOnload(i)
  \/ \E i \in Scripts : ScriptOnerror(i)
  \/ \E i \in Scripts : ScriptTimeout(i)
  \/ \E r \in Requests, granted \in BOOLEAN : StartVideoSettle(r, granted)
  \/ \E m \in {"face", "hand"}, ok \in BOOLEAN : ModelLoadSettle(m, ok)
  \/ OnLoadedMetadata
  \/ FrameChange
  \/ \E syncThrow \in BOOLEAN : Tick(syncThrow)
  \/ \E c \in Cycles, outcome \in {"resolve", "reject", "throw"} :
       CycleSettle(c, outcome)
  \/ Unmount

Spec == Init /\ [][Next]_vars

\* the session with the landmarks switch: every step of the session, and
\* the user turning the switch on or off at any time
TimerNext == Next \/ ToggleLandmarks
TimerSpec == Init /\ [][TimerNext]_vars

\* ------------------------------------------- the detection cycles alone
\* the session at the point where the capture is ready, the interval runs
\* and the two model loads are still pending
CycleInit ==
  /\ faceIn = SmilingFace
  /\ handsIn = TRUE
  /\ jitIn = ZeroJitter
  /\ timeIn = 1000
  /\ randIn = HalfDraws
  /\ meshIn = MeasuredOnly
  /\ mounted = TRUE
  /\ error = "none"
  /\ loaderPc = "models"
  /\ scriptTimer = [i \in Scripts |-> "armed"]
  /\ faceLoad = "pending"
  /\ handLoad = "pending"
  /\ gum = [r \in Requests |-> IF r = 1 THEN "live" ELSE "idle"]
  /\ srcObject = 1
  /\ metaPending = FALSE
  /\ isVideoReady = TRUE
  /\ frameOk = TRUE
  /\ timerActive = TRUE
  /\ intervals = 1
  /\ detectionIntervalRef = "live"
  /\ showLandmarks = FALSE
  /\ faceModel = FALSE
  /\ handModel = FALSE
  /\ modelsLoaded = FALSE
  /\ isDetecting = FALSE
  /\ cycleState = [c \in Cycles |-> "unused"]
  /\ lastTick = "none"
  /\ lastDone = 0
  /\ mood = ""
  /\ emotionScores = EmptyScores
  /\ faceDetails = "null"
  /\ handDetails = "null"
  /\ ClientInit
  /\ db = Stored(0)
  /\ clock = 0

CycleNext ==
  \/ \E m \in {"face", "hand"}, ok \in BOOLEAN : ModelLoadSettle(m, ok)
  \/ FrameChange
  \/ \E syncThrow \in BOOLEAN : Tick(syncThrow)
  \/ \E c \in Cycles, outcome \in {"resolve", "reject", "throw"} :
       CycleSettle(c, outcome)
  \/ Unmount

\* every inference call eventually resolves or rejects: the Promise.all of a
\* cycle in flight eventually settles
CycleSpec ==
  /\ CycleInit
  /\ [][CycleNext]_vars
  /\ WF_vars(\E c \in Cycles, outcome \in {"resolve", "reject", "throw"} :
               CycleSettle(c, outcome))

\* ================================== the detection handlers on many inputs
\* mouth width and height; <<22, 0>> is a closed mouth 2.2 px wide
MouthShapes == {<<640, 200>>, <<22, 0>>, <<32, 0>>, <<300, 200>>,
                <<280, 200>>, <<540, 200>>, <<400, 100>>, <<360, 200>>}
EyebrowAngles == {<<0, 0>>, <<-20, 20>>, <<-20, 0>>}

\* a mouth shape with a corner difference no larger than the mouth width
MouthInputs == {x \in MouthShapes \X {0, 30, 50} : x[2] <= x[1][1]}

ScoreFaces ==
  {Face(1, 468, q[1][1], q[1][2], q[2], down, bh, a[1], a[2], eo) :
     q \in MouthInputs, down \in BOOLEAN, bh \in {100, 200, 300},
     a \in EyebrowAngles, eo \in {100, 200}}

\* noise draws in [-0.025, 0.025): the same for every label, or one label
\* at one end and the four others at the other end
ScoreJitters ==
  {[k \in LabelSet |-> j] : j \in {-25, 0, 24}}
    \cup {[k \in LabelSet |-> IF k = x THEN j ELSE -1 - j] :
            x \in LabelSet, j \in {-25, 24}}

ScoreTimes == {1000, 8999, 9000, 17999, 18000, 29999, 31000}

\* Math.random draws in [0, 1), in tenths
ScoreDraws ==
  {[k \in LabelSet |-> d] : d \in {0, 5, 9}}
    \cup {[k \in LabelSet |-> IF k = x THEN d ELSE 9 - d] :
            x \in LabelSet, d \in {0, 9}}
    \cup {[k \in LabelSet |-> IF k = "neutral" THEN 5 ELSE 0]}

\* the point at index i of a synthetic landmark array: the mouth corners
\* of the full mesh are w apart and dn below the mouth centre, the lips h
\* apart, the eyes open by eo, the eyebrows tilted by b; the low indices
\* hold a second, different geometry
MeshPt(i, w, h, dn, b, eo) ==
  CASE i = 0 -> <<1000, 3000>>
    [] i = 1 -> <<1100, 3000>>
    [] i = 13 -> <<1000, 2950>>
    [] i = 14 -> <<1000, 2950 + h>>
    [] i = 61 -> <<700, 3000 + dn>>
    [] i = 291 -> <<700 + w, 3000 + dn>>
    [] i = 5 -> <<800, 2000>>
    [] i = 6 -> <<1200, 2800>>
    [] i = 7 -> <<800, 1950>>
    [] i = 8 -> <<800, 2050>>
    [] i = 9 -> <<1200, 2750>>
    [] i = 10 -> <<1200, 2850>>
    [] i = 159 -> <<800, 1950>>
    [] i = 145 -> <<800, 1950 + eo>>
    [] i = 386 -> <<1200, 2800>>
    [] i = 374 -> <<1200, 2800 + eo>>
    [] i = 11 -> <<1000, 1800>>
    [] i = 12 -> <<900, 1800>>
    [] i = 65 -> <<1000, 1800 - b>>
    [] i = 105 -> <<900 - b \div 2, 1800 + b \div 2>>
    [] i = 295 -> <<900, 2850 + h>>
    [] i = 334 -> <<900 + b, 2850 + h + b>>
    [] OTHER -> <<1000, 2500>>

\* array lengths below, at and above 20, each one just long enough to hold
\* one more of the preferred indices
MeshLens == {0, 10, 19, 20, 62, 66, 106, 146, 160, 292, 296, 335, 375, 387, 468}

ScoreMeshes ==
  {Mesh("mesh", len, [i \in UsedIdx |-> IF i < len
                                          THEN MeshPt(i, w, h, dn, b, eo)
                                          ELSE <<0, 0>>]) :
     len \in MeshLens, w \in {20, 300, 640}, h \in {0, 5, 200},
     dn \in {0, 300},
     b \in {0, 100}, eo \in {100, 200}}

\* the inputs of the detection handlers: faces given by their measurements,
\* times and draws of the fallback simulator, faces given by their landmarks
ScoreInputs ==
  /\ \/ /\ faceIn \in ScoreFaces
        /\ meshIn = MeasuredOnly
        /\ jitIn \in ScoreJitters
        /\ timeIn = 1000
        /\ randIn = HalfDraws
     \/ /\ faceIn = SmilingFace
        /\ meshIn = MeasuredOnly
        /\ jitIn = ZeroJitter
        /\ timeIn \in ScoreTimes
        /\ randIn \in ScoreDraws
     \/ /\ meshIn \in ScoreMeshes \cup {NoLandmarks}
        /\ faceIn = Measure(meshIn)
        /\ jitIn \in {ZeroJitter, [k \in LabelSet |-> 24]}
        /\ timeIn = 1000
        /\ randIn = HalfDraws
  /\ handsIn = TRUE

\* the session with the video ready, both models loaded and all cycles but
\* the last one completed in AI mode on the face in front of the camera
ArmedSession ==
  /\ mounted = TRUE
  /\ error = "none"
  /\ loaderPc = "loaded"
  /\ scriptTimer = [i \in Scripts |-> "armed"]
  /\ faceLoad = "ok"
  /\ handLoad = "ok"
  /\ gum = [r \in Requests |-> IF r = 1 THEN "live" ELSE "idle"]
  /\ srcObject = 1
  /\ metaPending = FALSE
  /\ isVideoReady = TRUE
  /\ frameOk = TRUE
  /\ timerActive = TRUE
  /\ intervals = 1
  /\ detectionIntervalRef = "live"
  /\ showLandmarks = FALSE
  /\ faceModel = TRUE
  /\ handModel = TRUE
  /\ modelsLoaded = TRUE
  /\ isDetecting = FALSE
  /\ cycleState = [c \in Cycles |-> IF c < MaxCycles THEN "ai" ELSE "unused"]
  /\ lastTick = "ai"
  /\ lastDone = MaxCycles - 1
  /\ emotionScores = calculateEmotionsFromLandmarks(faceIn, jitIn)
  /\ mood = dominantEmotion(emotionScores)
  /\ faceDetails = "face"
  /\ handDetails = "hands"
  /\ ClientInit

ScoreInit ==
  /\ ScoreInputs
  /\ ArmedSession
  /\ db = Stored(0)
  /\ clock = 0

ScoreNext ==
  \/ \E syncThrow \in BOOLEAN : Tick(syncThrow)
  \/ \E c \in Cycles, outcome \in {"resolve", "reject", "throw"} :
       CycleSettle(c, outcome)

ScoreSpec == ScoreInit /\ [][ScoreNext]_vars

\* ===================================================== history and save
\* server, getMoodHistory: MoodLog.find().sort({ timestamp: -1 }).limit(20).
\* InsertDesc puts x into a list sorted by descending timestamp (the stored
\* timestamps of the model are distinct, so the order is determined)
RECURSIVE InsertDesc(_, _)
InsertDesc(srt, x) ==
  IF srt = <<>> THEN <<x>>
  ELSE IF x.ts > Head(srt).ts THEN <<x>> \o srt
  ELSE <<Head(srt)>> \o InsertDesc(Tail(srt), x)

RECURSIVE SortDesc(_)
SortDesc(docs) ==
  IF docs = <<>> THEN <<>> ELSE InsertDesc(SortDesc(Tail(docs)), Head(docs))

\* the first n elements: .limit(n) on the server, .slice(0, n) on the client
Limit(docs, n) == SubSeq(docs, 1, Min(n, Len(docs)))

\* getMoodHistory without the sort: the documents in insertion order
getMoodHistory_Unsorted(ok) ==
  /\ fetchPc = "sent"
  /\ fetchPc' = IF ok THEN "ok" ELSE "err"
  /\ fetchBody' = IF ok THEN Limit(db, HistoryLimit) ELSE fetchBody
  /\ UNCHANGED <<mounted, error, timerVars, loaderVars, captureVars,
                 cycleVars, resultVars, inputVars, showLandmarks, teardownVars, db, clock,
                 history, notes, saves, lastAlert>>

\* server, getMoodHistory (part_000 lines 27-36): 200 with the newest
\* documents, or 500 when the query throws
getMoodHistory(ok) ==
  /\ fetchPc = "sent"
  /\ fetchPc' = IF ok THEN "ok" ELSE "err"
  /\ fetchBody' = IF ok THEN Limit(SortDesc(db), HistoryLimit) ELSE fetchBody
  /\ UNCHANGED <<mounted, error, timerVars, loaderVars, captureVars,
                 cycleVars, resultVars, inputVars, showLandmarks, teardownVars, db, clock,
                 history, notes, saves, lastAlert>>

\* client, fetchMoodHistory (lines 689-704) when the response arrives:
\* the body of a 200 response, [] for any other status
FetchSettle ==
  /\ fetchPc \in {"ok", "err"}
  /\ fetchPc' = "done"
  /\ history' = Upd(IF fetchPc = "ok" THEN fetchBody ELSE <<>>, history)
  /\ UNCHANGED <<mounted, error, timerVars, loaderVars, captureVars,
                 cycleVars, resultVars, inputVars, showLandmarks, teardownVars, db, clock,
                 fetchBody, notes, saves, lastAlert>>

\* client, fetchMoodHistory when fetch rejects (lines 701-703): logged only
FetchNetworkError ==
  /\ fetchPc \in {"sent", "ok", "err"}
  /\ fetchPc' = "done"
  /\ UNCHANGED <<mounted, error, timerVars, loaderVars, captureVars,
                 cycleVars, resultVars, inputVars, showLandmarks, teardownVars, db, clock,
                 fetchBody, history, notes, saves, lastAlert>>

\* the notes textarea (line 978): the user types or deletes the text
SetNotes ==
  /\ VideoRefCurrent
  /\ notes' = IF notes = "" THEN "text" ELSE ""
  /\ UNCHANGED <<mounted, error, timerVars, loaderVars, captureVars,
                 cycleVars, resultVars, inputVars, showLandmarks, teardownVars, db, clock,
                 fetchPc, fetchBody, history, saves, lastAlert>>

UnusedSaves == {i \in Saves : saves[i].pc = "unused"}

\* client, handleSaveMood (lines 709-725) up to the fetch call; the
\* timestamp of the payload is the client's clock, which may be behind
\* (backdated) the stored timestamps
handleSaveMood(backdated) ==
  /\ VideoRefCurrent
  /\ mood # ""
  /\ UnusedSaves # {}
  /\ clock' = clock + 1
  /\ LET i == CHOOSE j \in UnusedSaves : \A k \in UnusedSaves : j <= k
     IN saves' = [saves EXCEPT ![i] =
                    [pc |-> "sent",
                     ts |-> IF backdated THEN -clock' ELSE clock',
                     rec |-> NoRecord]]
  /\ UNCHANGED <<mounted, error, timerVars, loaderVars, captureVars,
                 cycleVars, resultVars, inputVars, showLandmarks, teardownVars, db, fetchPc,
                 fetchBody, history, notes, lastAlert>>

\* server, addMoodLog (part_000 lines 4-24): the document is stored and
\* returned with status 200, or save() throws and the status is 500
addMoodLog(i, ok) ==
  /\ saves[i].pc = "sent"
  /\ IF ok
       THEN LET doc == [id |-> Len(db) + 1, ts |-> saves[i].ts]
            IN /\ db' = Append(db, doc)
               /\ saves' = [saves EXCEPT ![i].pc = "ok", ![i].rec = doc]
       ELSE /\ db' = db
            /\ saves' = [saves EXCEPT ![i].pc = "err"]
  /\ UNCHANGED <<mounted, error, timerVars, loaderVars, captureVars,
                 cycleVars, resultVars, inputVars, showLandmarks, teardownVars, clock,
                 fetchPc, fetchBody, history, notes, lastAlert>>

\* SaveSucceeded keeping 20 of the previous records
SaveSucceeded_Slice20(i) ==
  /\ history' = Upd(<<saves[i].rec>> \o Limit(history, KeepOnSave + 1), history)
  /\ notes' = Upd("", notes)
  /\ lastAlert' = "saved"
  /\ saves' = [saves EXCEPT ![i].pc = "saved"]

\* client, lines 729-735: the response is ok
SaveSucceeded(i) ==
  /\ history' = Upd(<<saves[i].rec>> \o Limit(history, KeepOnSave), history)
  /\ notes' = Upd("", notes)
  /\ lastAlert' = "saved"
  /\ saves' = [saves EXCEPT ![i].pc = "saved"]

\* SaveFailed that also clears the notes
SaveFailed_ClearsNotes(i) ==
  /\ lastAlert' = "failed"
  /\ saves' = [saves EXCEPT ![i].pc = "failed"]
  /\ notes' = Upd("", notes)
  /\ UNCHANGED history

\* client, lines 736-745: the response is not ok, or fetch rejected; an
\* alert is shown and nothing else is done
SaveFailed(i) ==
  /\ lastAlert' = "failed"
  /\ saves' = [saves EXCEPT ![i].pc = "failed"]
  /\ UNCHANGED <<history, notes>>

\* client, the .then of handleSaveMood (lines 727-741)
SaveSettle(i) ==
  /\ saves[i].pc \in {"ok", "err"}
  /\ IF saves[i].pc = "ok" THEN SaveSucceeded(i) ELSE SaveFailed(i)
  /\ UNCHANGED <<mounted, error, timerVars, loaderVars, captureVars,
                 cycleVars, resultVars, inputVars, showLandmarks, teardownVars, db, clock,
                 fetchPc, fetchBody>>

\* client, the .catch of handleSaveMood (lines 742-745): the request or its
\* response was lost
SaveNetworkError(i) ==
  /\ saves[i].pc \in {"sent", "ok", "err"}
  /\ SaveFailed(i)
  /\ UNCHANGED <<mounted, error, timerVars, loaderVars, captureVars,
                 cycleVars, resultVars, inputVars, showLandmarks, teardownVars, db, clock,
                 fetchPc, fetchBody>>

\* the number of documents stored before the session
StoredBefore == {0, 19, 20, 21}

\* the armed session with the history request of the mount effect still on
\* its way
HistInit ==
  /\ faceIn = SmilingFace
  /\ meshIn = MeasuredOnly
  /\ jitIn = ZeroJitter
  /\ timeIn = 1000
  /\ randIn = HalfDraws
  /\ handsIn = TRUE
  /\ ArmedSession
  /\ \E n \in StoredBefore : db = Stored(n) /\ clock = n

HistNext ==
  \/ \E ok \in BOOLEAN : getMoodHistory(ok)
  \/ FetchSettle
  \/ FetchNetworkError
  \/ SetNotes
  \/ \E backdated \in BOOLEAN : handleSaveMood(backdated)
  \/ \E i \in Saves, ok \in BOOLEAN : addMoodLog(i, ok)
  \/ \E i \in Saves : SaveSettle(i)
  \/ \E i \in Saves : SaveNetworkError(i)

HistSpec == HistInit /\ [][HistNext]_vars

\* ============================================================ teardown
\* the detection cycles, with the cleanup of the mount effect run a second
\* time after the unmount
TeardownSpec == CycleInit /\ [][CycleNext \/ CleanupAgain]_vars

\* ============================================================== claims
Live == {r \in Requests : gum[r] = "live"}

\* C1: at most one detection cycle is in flight at any time; a tick that
\* fires while an earlier cycle's inference is still pending starts no cycle
C1_AtMostOneInFlight == Cardinality(InFlight) <= 1

\* C2: a script load that has neither succeeded nor failed when its 10 s
\* timer fires is failed by the timer, so the loader is no longer loading it
C2_HungLoadFails ==
  \A i \in Scripts : scriptTimer[i] = "fired" => loaderPc # ScriptPc(i)

\* the request made by the failure handler of the loader (line 118)
FailureReq == IF gum[2] # "idle" THEN 2 ELSE 1

\* C3: after a model load failure, once device access is granted to the
\* capture the failure handler started, that stream feeds the rendered video
\* element, so that capture becomes ready and ticks run in fallback mode
C3_CaptureAfterLoadFailure ==
  (mounted /\ loaderPc = "failed" /\ gum[FailureReq] = "live")
    => (VideoRefCurrent /\ srcObject = FailureReq)

\* C8: after teardown no timer is left and no acquired stream is left running
C8_TeardownReleasesAll == ~mounted => (~timerActive /\ Live = {})

\* C9: a session never holds two unreleased device streams
C9_OneStream == Cardinality(Live) <= 1

\* C10: once device access was denied the error stays on screen, no cycle
\* is started and getUserMedia is not called again
C10_DenialIsFinal ==
  [][(\E r \in Requests : gum[r] = "denied")
       => /\ mounted' => error' # "none"
          /\ Unused' = Unused
          /\ \A r \in Requests : gum[r] = "idle" => gum'[r] = "idle"]_vars

\* C4: once a model load has failed the loader stays failed, starts no
\* script or model load again, the model handles stay unset, and no cycle
\* runs AI-mode inference
C4_DegradedForGood ==
  [][loaderPc = "failed"
       => /\ loaderPc' = "failed"
          /\ \A i \in Scripts : scriptTimer[i] = "unset" => scriptTimer'[i] = "unset"
          /\ faceLoad = "idle" => faceLoad' = "idle"
          /\ handLoad = "idle" => handLoad' = "idle"
          /\ ~faceModel' /\ ~handModel'
          /\ \A c \in Cycles : cycleState'[c] \notin {"inflight", "ai", "recovered"}]_vars

\* the face model load failed and the hand model load succeeded afterwards
C4_Witness ==
  mounted /\ loaderPc = "failed" /\ faceLoad = "err" /\ handLoad = "ok"

Recovered == {c \in Cycles : cycleState[c] = "recovered"}

\* C5: an AI-mode cycle that raises ends with the fallback simulator's
\* result, nothing else changes (no error shown, the timer stays), and a
\* tick that starts a cycle afterwards with both models loaded runs AI mode
C5_ExceptionRecovered ==
  /\ []((Recovered # {} /\ mounted) => (timerActive /\ error = "none"))
  /\ []((Recovered # {} /\ DetectionReady /\ useAIMode /\ Unused # {})
          => ENABLED Tick(FALSE))
  /\ [][\A c \in Cycles :
          (cycleState[c] # "recovered" /\ cycleState'[c] = "recovered")
            => /\ lastDone' = c
               /\ mounted => /\ emotionScores' = getRandomEmotions(timeIn, randIn)
                             /\ mood' = dominantEmotion(emotionScores')
                             /\ faceDetails' = "fallback"
                             /\ handDetails' = "fallback"
                             /\ ~isDetecting'
               /\ error' = error
               /\ timerActive' = timerActive]_vars
  /\ [][(Recovered # {} /\ useAIMode /\ Unused' # Unused)
          => /\ lastTick' = "ai"
             /\ cycleState'[NextCycle] \in {"inflight", "recovered"}]_vars

\* a cycle was recovered by the fallback and the next cycle is in flight in
\* AI mode
C5_Witness ==
  /\ mounted /\ timerActive /\ useAIMode
  /\ cycleState[1] = "recovered" /\ cycleState[2] = "inflight"
  /\ lastDone = 1 /\ faceDetails = "fallback"

\* C6: the distribution the scorer returns for a landmark set of at least
\* 20 points has a non-zero sum before normalisation, five values >= 0 and
\* the five values sum to 1
C6_ScorerDistribution ==
  (faceDetails = "face" /\ faceIn.points >= 20)
    => /\ emotionScores.den > 0
       /\ \A k \in LabelSet : emotionScores.num[k] >= 0
       /\ SumValues(emotionScores.num) = emotionScores.den

\* the last cycle ran the scorer and the noise pushed happy below 0, where
\* it was clamped
C6_Witness ==
  /\ lastDone = MaxCycles /\ cycleState[MaxCycles] = "ai"
  /\ faceDetails = "face" /\ faceIn.points >= 20
  /\ jitIn["happy"] < 0 /\ emotionScores.num["happy"] = 0

IsMax(e, k) == \A j \in LabelSet : e.num[k] >= e.num[j]
LabelIndex(k) == CHOOSE i \in 1..Len(Labels) : Labels[i] = k

\* the label with the maximum value, the earliest (first = TRUE) or the
\* latest (first = FALSE) in the label order among equals
IsArgMax(e, m, first) ==
  /\ IsMax(e, m)
  /\ \A j \in LabelSet :
       IsMax(e, j) => IF first THEN LabelIndex(m) <= LabelIndex(j)
                               ELSE LabelIndex(j) <= LabelIndex(m)

\* C7 as stated: whenever a cycle forwards its result the dominant mood is
\* the label with the maximum value, the earliest in the label order among
\* equals
C7_EarliestMaxWins ==
  [][(lastDone' # lastDone /\ mood' # "")
       => IsArgMax(emotionScores', mood', TRUE)]_vars

\* C7 amended: whenever a cycle forwards its result the dominant mood is
\* the label with the maximum value, the latest in the label order among
\* equals
C7_LatestMaxWins ==
  [][(lastDone' # lastDone /\ mood' # "")
       => IsArgMax(emotionScores', mood', FALSE)]_vars

\* the last cycle produced a fallback distribution in which two labels
\* share the maximum
C7_Witness ==
  /\ lastDone = MaxCycles /\ faceDetails = "fallback" /\ mood # ""
  /\ \E j \in LabelSet : j # mood /\ IsMax(emotionScores, j)

\* C11: a cycle started by a tick at which both model handles are set runs
\* AI-mode inference, and a cycle started by a tick at which a handle is
\* missing produces the fallback simulator's result, marked as fallback
C11_ModeFollowsHandles ==
  [][Unused' # Unused
       => IF faceModel /\ handModel
            THEN /\ lastTick' = "ai"
                 /\ cycleState'[NextCycle] \in {"inflight", "recovered"}
            ELSE /\ lastTick' = "fallback"
                 /\ cycleState'[NextCycle] = "fallback"
                 /\ lastDone' = NextCycle
                 /\ faceDetails' = "fallback"
                 /\ handDetails' = "fallback"
                 /\ emotionScores' = getRandomEmotions(timeIn, randIn)]_vars

\* a cycle ran in fallback mode before the models were loaded and the next
\* one is in flight in AI mode
C11_Witness ==
  /\ cycleState[1] = "fallback" /\ cycleState[2] = "inflight"
  /\ faceModel /\ handModel /\ faceDetails = "fallback"

Ended == {"ai", "recovered", "fallback"}

\* C12: a cycle that starts inference has the in-flight flag set, the step
\* by which a cycle ends (completion, rejection, exception, fallback) leaves
\* the flag cleared, and with every inference settling each cycle ends (an
\* ended cycle stays ended, so: eventually no cycle is left in flight)
C12_FlagSetAndCleared ==
  /\ [][\A c \in Cycles :
          (cycleState[c] = "unused" /\ cycleState'[c] = "inflight")
            => isDetecting']_vars
  /\ [][\A c \in Cycles :
          (cycleState[c] \notin Ended /\ cycleState'[c] \in Ended /\ mounted)
            => ~isDetecting']_vars
  /\ <>[](InFlight = {})

\* one cycle completed normally, the next ended in the .catch, and the flag
\* is cleared
C12_Witness ==
  /\ mounted /\ ~isDetecting /\ lastDone = 2
  /\ cycleState[1] = "ai" /\ cycleState[2] = "recovered"

\* C13: results are forwarded in the order their cycles started: no cycle
\* that started before the one that forwarded last is still in flight
C13_ForwardedInStartOrder ==
  \A c \in Cycles : c < lastDone => cycleState[c] # "inflight"

\* C14: for an absent landmark array or one with fewer than 20 points the
\* scorer returns the fixed default distribution, without noise and without
\* normalisation
C14_ShortMeshGivesDefault ==
  (faceDetails = "face" /\ meshIn.kind # "measured"
     /\ (meshIn.kind = "absent" \/ meshIn.len < 20))
    => /\ emotionScores.den = 1000
       /\ emotionScores.num =
            [k \in LabelSet |->
               CASE k = "neutral" -> 170 [] k = "happy" -> 500
                 [] k = "sad" -> 100 [] k = "angry" -> 80
                 [] OTHER -> 150]

\* the last cycle scored an array of 19 points with non-zero noise draws
C14_Witness ==
  /\ lastDone = MaxCycles /\ cycleState[MaxCycles] = "ai"
  /\ faceDetails = "face" /\ meshIn.kind = "mesh" /\ meshIn.len = 19
  /\ jitIn # ZeroJitter

\* C15: in a landmark array of at least 20 points every key point is the one
\* at its preferred index when the array holds it and the one at its
\* fallback index otherwise, reading the measurements throws nothing, and
\* the distribution of the scorer is the one computed from them
C15_FallbackPoints ==
  (meshIn.kind = "mesh" /\ meshIn.len >= 20)
    => /\ \A k \in KeyNames :
            KeyPoint(meshIn, k) = IF KeyIdx[k][1] < meshIn.len
                                    THEN meshIn.pt[KeyIdx[k][1]]
                                    ELSE meshIn.pt[KeyIdx[k][2]]
       /\ ~faceIn.err
       /\ faceDetails = "face"
            => emotionScores =
                 Normalize([k \in LabelSet |->
                              AddNoise(RawScores(faceIn)[k], jitIn[k])])

\* the last cycle scored an array of exactly 20 points, which holds none of
\* the mesh indices from 61 on
C15_Witness ==
  /\ lastDone = MaxCycles /\ cycleState[MaxCycles] = "ai"
  /\ faceDetails = "face" /\ meshIn.kind = "mesh" /\ meshIn.len = 20
  /\ faceIn.mw = 100 /\ emotionScores # DefaultEmotions

\* the three profiles of the fallback simulator: value = base + draw * scale
ProfileBase(p) ==
  CASE p = "happy" -> [neutral |-> 300, happy |-> 400, sad |-> 0,
                       angry |-> 0, surprised |-> 0]
    [] p = "neutral" -> [neutral |-> 600, happy |-> 100, sad |-> 100,
                         angry |-> 0, surprised |-> 0]
    [] p = "mixed" -> [neutral |-> 300, happy |-> 100, sad |-> 100,
                       angry |-> 50, surprised |-> 50]
ProfileScale(p) ==
  CASE p = "happy" -> [neutral |-> 20, happy |-> 30, sad |-> 20,
                       angry |-> 10, surprised |-> 10]
    [] p = "neutral" -> [neutral |-> 20, happy |-> 20, sad |-> 10,
                         angry |-> 10, surprised |-> 10]
    [] p = "mixed" -> [neutral |-> 30, happy |-> 30, sad |-> 30,
                       angry |-> 15, surprised |-> 15]
\* cyclePosition = (t mod 30000) / 30000 in [0, 0.3), [0.3, 0.6), [0.6, 1)
ProfileAt(t) ==
  IF 10 * (t % 30000) < 3 * 30000 THEN "happy"
  ELSE IF 10 * (t % 30000) < 6 * 30000 THEN "neutral" ELSE "mixed"

\* C16: the fallback simulator's output has five values >= 0 that sum to 1,
\* and it is drawn from the profile that belongs to the cycle position
C16_FallbackProfile ==
  faceDetails = "fallback"
    => /\ emotionScores.den > 0
       /\ \A k \in LabelSet : emotionScores.num[k] >= 0
       /\ SumValues(emotionScores.num) = emotionScores.den
       /\ \A k \in LabelSet :
            emotionScores.num[k] =
              ProfileBase(ProfileAt(timeIn))[k]
                + randIn[k] * ProfileScale(ProfileAt(timeIn))[k]

\* the last cycle fell back at cycle position 0.6 exactly, the first
\* instant of the mixed profile
C16_Witness ==
  /\ lastDone = MaxCycles /\ faceDetails = "fallback"
  /\ timeIn % 30000 = 18000
  /\ emotionScores.num["angry"] >= 50

\* C17: the history buffer of the client never holds more than 20 records,
\* and a successful save puts the record the server returned at index 0,
\* followed by the records held before, in their order
C17_HistoryBuffer ==
  /\ [](Len(history) <= 20)
  /\ [][\A i \in Saves :
          (saves[i].pc = "ok" /\ saves'[i].pc = "saved" /\ mounted)
            => /\ history'[1] = saves[i].rec
               /\ Len(history') = Min(Len(history) + 1, 20)
               /\ \A j \in 2..Len(history') : history'[j] = history[j - 1]]_vars

\* a save succeeded while the buffer held the 20 records the server had
\* sent, and the oldest of them was dropped
C17_Witness ==
  /\ Len(history) = 20 /\ Len(db) >= 21
  /\ \E i \in Saves : saves[i].pc = "saved" /\ history[1] = saves[i].rec
  /\ history[20].id = 3

\* the document stored by the most recent POST that returned 200
LastPosted == db[Len(db)]
PostedHere == \E i \in Saves : saves[i].rec = LastPosted
Newest(doc) == \A j \in 1..Len(db) : db[j] = doc \/ db[j].ts < doc.ts
NewestFirst(docs) ==
  \A j \in 1..(Len(docs) - 1) : docs[j].ts >= docs[j + 1].ts

\* C18 as stated: the record a POST returned with status 200 is at index 0
\* of the next history response, whatever its timestamp and whatever was
\* stored before; a history response is newest-first with at most 20 entries
C18_PostedIsFirst ==
  [][(fetchPc = "sent" /\ fetchPc' = "ok")
       => /\ (db # <<>> /\ PostedHere) => fetchBody'[1] = LastPosted
          /\ NewestFirst(fetchBody')
          /\ Len(fetchBody') <= 20]_vars

\* C18 amended: the record a POST returned with status 200 is at index 0 of
\* the next history response (no other POST handled in between) when its
\* timestamp is later than that of every document stored before; a history
\* response is newest-first by timestamp with at most 20 entries
C18_NewestPostedIsFirst ==
  [][(fetchPc = "sent" /\ fetchPc' = "ok")
       => /\ (db # <<>> /\ PostedHere /\ Newest(LastPosted))
               => fetchBody'[1] = LastPosted
          /\ NewestFirst(fetchBody')
          /\ Len(fetchBody') <= 20]_vars

\* the history request was answered after a POST with a current timestamp
\* had stored the 21st document
C18_Witness ==
  /\ fetchPc = "ok" /\ Len(fetchBody) = 20 /\ Len(db) = 21
  /\ PostedHere /\ fetchBody[1] = LastPosted

\* C19: a failed save (status not ok, or network error) shows the failure
\* alert, sends no new request, and leaves the history, the notes, the mood,
\* the distribution, the capture and the scheduler as they were
C19_FailedSaveFrame ==
  [][\A i \in Saves :
       (saves[i].pc # "failed" /\ saves'[i].pc = "failed")
         => /\ lastAlert' = "failed"
            /\ \A j \in Saves : j # i => saves'[j] = saves[j]
            /\ db' = db
            /\ UNCHANGED <<history, notes, mood, emotionScores, captureVars,
                           timerActive, cycleVars>>]_vars

\* a save with notes typed was answered with status 500 and the notes and
\* the history loaded before are still there
C19_Witness ==
  /\ \E i \in Saves : saves[i].pc = "failed" /\ saves[i].rec = NoRecord
  /\ lastAlert = "failed" /\ notes = "text" /\ Len(history) = 20

\* C20: running the teardown twice does not call stop() again on a track
\* that is already stopped
C20_StopOncePerTrack == \A r \in Requests : stopCalls[r] <= 1

\* C21: the two model loads are never in progress at the same time: the
\* load of the hand model starts only after the load of the face model has
\* completed
C21_ModelLoadsInSequence ==
  /\ ~(faceLoad = "pending" /\ handLoad = "pending")
  /\ handLoad # "idle" => faceLoad = "ok"

\* the last cycle ran the scorer on the face in front of the camera
ScoredLast ==
  /\ lastDone = MaxCycles /\ cycleState[MaxCycles] = "ai"
  /\ faceDetails = "face" /\ faceIn.points >= 20 /\ ~faceIn.err

\* m is the only label with the maximum value of e
StrictMax(e, m) == \A j \in LabelSet : j = m \/ e.num[m] > e.num[j]

\* the features of scenario A: mouthRatio = 3.2, mouth not turned down,
\* corner difference 0, no eyebrow, eye or mouth-open flag
ScenarioA(f) ==
  /\ 10 * mouthRatio(f).n = 32 * mouthRatio(f).d
  /\ ~f.down /\ f.cd = 0
  /\ ~eyebrowRaised(f) /\ ~eyebrowLowered(f) /\ ~eyebrowsAngledInward(f)
  /\ ~eyesWideOpen(f) /\ ~isMouthOpen(f)

\* C22: on the features of scenario A the happiness score is 0.8 and, for
\* every noise draw, happy is the dominant label of the distribution
C22_ScenarioA ==
  ScenarioA(faceIn)
    => /\ calculateHappinessScore(mouthRatio(faceIn), faceIn.down) = 800
       /\ ScoredLast => (mood = "happy" /\ StrictMax(emotionScores, "happy"))

\* scenario A was scored with the noise lowering happy and raising the rest
C22_Witness ==
  /\ ScoredLast /\ ScenarioA(faceIn)
  /\ jitIn["happy"] = -25 /\ jitIn["neutral"] = 24
  /\ mood = "happy"

\* the features of scenario B: eyebrows raised, eyes wide open, mouth open,
\* mouth not turned down, corners level, eyebrows neither lowered nor angled
ScenarioB(f) ==
  /\ eyebrowRaised(f) /\ eyesWideOpen(f) /\ isMouthOpen(f)
  /\ ~f.down /\ f.cd = 0
  /\ ~eyebrowLowered(f) /\ f.la = 0 /\ f.ra = 0

\* C23: on the features of scenario B the surprise score is 0.9 and, for
\* every noise draw, surprised is the dominant label of the distribution
C23_ScenarioB ==
  ScenarioB(faceIn)
    => /\ calculateSurpriseScore(eyebrowRaised(faceIn), eyesWideOpen(faceIn),
                                 isMouthOpen(faceIn)) = 900
       /\ ScoredLast
            => (mood = "surprised" /\ StrictMax(emotionScores, "surprised"))

\* scenario B was scored on a wide open mouth (happiness tier 0.8) with the
\* noise lowering surprised and raising the rest
C23_Witness ==
  /\ ScoredLast /\ ScenarioB(faceIn)
  /\ RatioGT(mouthRatio(faceIn), 30)
  /\ jitIn["surprised"] = -25 /\ jitIn["happy"] = 24
  /\ mood = "surprised"

\* C24: every distribution the fallback simulator returns at a cycle
\* position in [0, 0.3) has happy > sad and happy > angry
C24_HappyOutweighs ==
  (faceDetails = "fallback" /\ 10 * (timeIn % 30000) < 3 * 30000)
    => /\ emotionScores.num["happy"] > emotionScores.num["sad"]
       /\ emotionScores.num["happy"] > emotionScores.num["angry"]

\* the simulator ran just before position 0.3 with the lowest draw for
\* happy and the highest for the other labels
C24_Witness ==
  /\ lastDone = MaxCycles /\ faceDetails = "fallback"
  /\ timeIn = 8999 /\ randIn["happy"] = 0 /\ randIn["sad"] = 9

\* C25: a cycle starts only at a tick that finds the capture ready and the
\* video playing with current frame data; a tick that finds otherwise
\* changes neither the in-flight flag nor the cycles nor the results
C25_TickNoOp ==
  /\ [][Unused' # Unused
          => (mounted /\ error = "none" /\ isVideoReady /\ frameOk)]_vars
  /\ [][(lastTick # "skipped" /\ lastTick' = "skipped")
          => /\ ~(mounted /\ error = "none" /\ isVideoReady /\ frameOk)
             /\ UNCHANGED <<isDetecting, cycleState, lastDone, mood,
                            emotionScores, faceDetails, handDetails>>]_vars

\* a tick was skipped on a ready capture without frame data while an
\* earlier cycle is still in flight
C25_Witness ==
  /\ lastTick = "skipped" /\ isVideoReady /\ ~frameOk /\ timerActive
  /\ cycleState[1] = "inflight" /\ cycleState[2] = "unused" /\ isDetecting

\* v when the flag holds, else nothing
When(flag, v) == IF flag THEN v ELSE 0

\* the four scores of a feature vector as the formulas state them
StatedSadness(f) ==
  Min(700, When(f.down, 400)
           + (IF f.cd > 40 THEN 200 ELSE When(f.cd > 25, 100))
           + When(RatioLT(mouthRatio(f), 15), 150))
StatedAnger(f) ==
  Min(600, When(eyebrowLowered(f), 300)
           + (IF eyebrowsAngledInward(f) THEN 250
              ELSE When(f.la < -15 \/ f.ra > 15, 150)))
StatedSurprise(f) ==
  Min(900, When(eyebrowRaised(f), 400) + When(eyesWideOpen(f), 300)
           + When(isMouthOpen(f), 300))
StatedHappiness(f) ==
  LET r == mouthRatio(f)
      tier == CASE RatioGT(r, 30) -> 800
                [] ~RatioGT(r, 30) /\ RatioGT(r, 25) -> 600
                [] ~RatioGT(r, 25) /\ RatioGT(r, 20) -> 400
                [] ~RatioGT(r, 20) /\ RatioGT(r, 15) -> 200
                [] OTHER -> 0
  IN Max(0, tier - When(f.down, 200))
StatedValues(f) ==
  [k \in LabelSet |->
     CASE k = "neutral" ->
            Max(50, 400 - (StatedSadness(f) + StatedAnger(f)
                           + StatedSurprise(f) + StatedHappiness(f)) \div 2)
       [] k = "sad" -> Max(100, StatedSadness(f))
       [] k = "angry" -> Max(100, StatedAnger(f))
       [] k = "surprised" -> Max(100, StatedSurprise(f))
       [] OTHER -> Min(700, StatedHappiness(f))]

\* C26: for every feature vector the five values before the noise equal
\* the stated formulas (sadness capped at 0.7, anger at 0.6, surprise at
\* 0.9, tiered happiness less 0.2 when the mouth is turned down, neutral
\* 0.4 less half the sum and at least 0.05, sad, angry and surprised at
\* least 0.1, happy at most 0.7), and a face scored without noise shows
\* exactly these values
C26_StatedValues ==
  (faceIn.points >= 20 /\ ~faceIn.err)
    => /\ RawScores(faceIn) = StatedValues(faceIn)
       /\ (ScoredLast /\ jitIn = ZeroJitter)
            => emotionScores.num = StatedValues(faceIn)

\* a face was scored without noise whose sadness sum exceeds its cap,
\* whose anger comes from one eyebrow angle only and whose neutral value
\* is at its floor
C26_Witness ==
  /\ ScoredLast /\ jitIn = ZeroJitter
  /\ faceIn.down /\ faceIn.cd > 40 /\ RatioLT(mouthRatio(faceIn), 15)
  /\ ~eyebrowsAngledInward(faceIn) /\ faceIn.la < -15
  /\ emotionScores.num["sad"] = 700 /\ emotionScores.num["angry"] = 450
  /\ emotionScores.num["neutral"] = 50

\* a cycle scores the face of a landmark array of at least 20 points
ScoresMesh ==
  /\ lastDone' # lastDone /\ faceDetails' = "face"
  /\ meshIn.kind = "mesh" /\ faceIn.points >= 20 /\ ~faceIn.err

\* mouthWidth / max(mouthHeight, 1) as a fraction of tenths of a pixel
StatedRatio(f) == [n |-> f.mw, d |-> Max(f.mh, 10)]

\* C27: for every landmark array of at least 20 points the cycle scores
\* with mouthRatio = mouthWidth / max(mouthHeight, 1), so a mouth height
\* between 0 and 1 divides by 1; the happy value of a noise-free cycle is
\* the one this ratio gives
C27_RatioDividesByAtLeastOne ==
  [][ScoresMesh
       => /\ mouthRatio(faceIn).n * StatedRatio(faceIn).d
               = StatedRatio(faceIn).n * mouthRatio(faceIn).d
          /\ jitIn = ZeroJitter
               => emotionScores'.num["happy"]
                    = Min(700, calculateHappinessScore(StatedRatio(faceIn),
                                                       faceIn.down))]_vars

\* the atan2 angle of the vector from the inner to the outer point of an
\* eyebrow of the landmark array l
OuterMinusInner(l, outer, inner) ==
  Atan2Deg(KeyPoint(l, outer)[2] - KeyPoint(l, inner)[2],
           KeyPoint(l, outer)[1] - KeyPoint(l, inner)[1])

\* C28: a cycle scores with both eyebrow angles taken as the atan2 angle
\* of the vector from the inner to the outer eyebrow point, the left and
\* the right one alike, and the angry value of a noise-free cycle is the
\* one these two angles give
C28_SameDirectionBothSides ==
  [][ScoresMesh
       => LET left == OuterMinusInner(meshIn, "leftEyebrowOuter",
                                      "leftEyebrowInner")
              right == OuterMinusInner(meshIn, "rightEyebrowOuter",
                                       "rightEyebrowInner")
          IN /\ faceIn.la = left
             /\ faceIn.ra = right
             /\ jitIn = ZeroJitter
                  => emotionScores'.num["angry"]
                       = Max(100, calculateAngerScore(
                                    eyebrowLowered(faceIn),
                                    left < -15 /\ right > 15,
                                    left, right))]_vars

\* C29: the in-flight flag is accurate: while the component is mounted
\* and some cycle awaits its inference the flag is set, and no step clears
\* the flag while a cycle is still awaiting its inference
C29_FlagAccurate ==
  /\ [](mounted /\ InFlight # {} => isDetecting)
  /\ [][(isDetecting /\ ~isDetecting') => InFlight' = {}]_vars

C31_AtMostOneTimer ==
  /\ [](intervals <= 1)
  /\ [](timerActive <=> intervals = 1)
  /\ [](intervals > 0 => (isVideoReady /\ detectionIntervalRef = "live"))
  /\ [](~mounted => intervals = 0)
  /\ [][(mounted /\ isVideoReady
          /\ (showLandmarks' # showLandmarks \/ (~faceModel /\ faceModel')))
         => (intervals' = 1 /\ detectionIntervalRef' = "live")]_vars

\* the timer was set, the models have loaded and the landmarks switch is
\* on, and a tick of the one timer has started a cycle in AI mode
C31_Witness ==
  /\ mounted /\ isVideoReady /\ showLandmarks /\ faceModel /\ handModel
  /\ intervals = 1 /\ detectionIntervalRef = "live"
  /\ cycleState[1] = "inflight"

\* C32: a cycle in AI mode whose face inference returns an empty list
\* leaves the mood and the distribution as they were; it sets the face
\* details to zero faces (not fallback mode) and the hand details, clears
\* the in-flight flag, and changes nothing else of the component
C32_EmptyFacesKeepMood ==
  [][\A c \in Cycles :
       (cycleState[c] = "inflight" /\ cycleState'[c] = "ai"
        /\ faceIn.faces = 0)
         => /\ UNCHANGED <<mood, emotionScores>>
            /\ mounted => /\ faceDetails' = "noface"
                           /\ handDetails'
                                = (IF handsIn THEN "hands" ELSE "nohands")
                           /\ ~isDetecting'
            /\ UNCHANGED <<mounted, error, timerVars, showLandmarks,
                           loaderVars, captureVars, lastTick, histVars>>]_vars

\* the first cycle failed and the simulator set a mood; the second cycle
\* then completed in AI mode with an empty face list and the mood and
\* the distribution of the first are still there
C32_Witness ==
  /\ mounted /\ faceIn.faces = 0
  /\ cycleState[1] = "recovered" /\ cycleState[2] = "ai" /\ lastDone = 2
  /\ faceDetails = "noface" /\ mood # "" /\ emotionScores # EmptyScores

====
